---- MODULE Spec2Model ----
(***************************************************************************)
(* Model of the keyboard part of mousekey (src/__init__.py):               *)
(*   - the key-sequence compiler     parse_keys / handle_code              *)
(*   - the action model              KeyAction and its subclasses          *)
(*   - the global injection path     KeyAction.run, Press, send_keys       *)
(*   - the targeted injection path   send_keystrokes                       *)
(* A text is a sequence of one-character strings; indices into a text are  *)
(* 0-based as in the source (the character at index i is string[i + 1]).   *)
(***************************************************************************)
EXTENDS Integers, Sequences, FiniteSets, TLC

(***************************************************************************)
(* Program constants                                                       *)
(***************************************************************************)
VK_SHIFT == 16
VK_CONTROL == 17
VK_MENU == 18

KEYEVENTF_EXTENDEDKEY == 1
KEYEVENTF_KEYUP == 2
KEYEVENTF_UNICODE == 4

WM_KEYDOWN == 256
WM_KEYUP == 257
WM_SYSKEYDOWN == 260
WM_SYSKEYUP == 261

\* the pressed bit of one byte of the 256-byte keyboard state
PRESSED == 128

(***************************************************************************)
(* Static tables.  CODES is the part of the named-key table whose names    *)
(* occur in the texts explored here, with every name the table has for the *)
(* codes those texts compile to; every name of the table is upper case.    *)
(***************************************************************************)
\* the names in the order of the dict literal
CodesItems ==
  << <<"D","O","W","N">>, <<"E","N","T","E","R">>, <<"S","P","A","C","E">>,
     <<"T","A","B">>, <<"U","P">>,
     <<"V","K","_","C","O","N","T","R","O","L">>, <<"V","K","_","D","O","W","N">>,
     <<"V","K","_","M","E","N","U">>, <<"V","K","_","R","E","T","U","R","N">>,
     <<"V","K","_","S","H","I","F","T">>, <<"V","K","_","S","P","A","C","E">>,
     <<"V","K","_","T","A","B">>, <<"V","K","_","U","P">> >>

CODES ==
  (<<"D","O","W","N">> :> 40) @@
  (<<"E","N","T","E","R">> :> 13) @@
  (<<"S","P","A","C","E">> :> 32) @@
  (<<"T","A","B">> :> 9) @@
  (<<"U","P">> :> 38) @@
  (<<"V","K","_","C","O","N","T","R","O","L">> :> 17) @@
  (<<"V","K","_","D","O","W","N">> :> 40) @@
  (<<"V","K","_","M","E","N","U">> :> 18) @@
  (<<"V","K","_","R","E","T","U","R","N">> :> 13) @@
  (<<"V","K","_","S","H","I","F","T">> :> 16) @@
  (<<"V","K","_","S","P","A","C","E">> :> 32) @@
  (<<"V","K","_","T","A","B">> :> 9) @@
  (<<"V","K","_","U","P">> :> 38)

\* dict((entry[1], entry[0]) for entry in CODES.items()): of the names of
\* one code the last one stays
CODE_NAMES ==
  [code \in {CODES[n] : n \in DOMAIN CODES} |->
     CodesItems[CHOOSE i \in 1..Len(CodesItems) :
                  /\ CODES[CodesItems[i]] = code
                  /\ \A j \in (i + 1)..Len(CodesItems) : CODES[CodesItems[j]] # code]]

MODIFIERS == ("+" :> VK_SHIFT) @@ ("^" :> VK_CONTROL) @@ ("%" :> VK_MENU)

\* string.ascii_uppercase, string.ascii_lowercase, string.digits
UpperCase ==
  {"A", "B", "C", "D", "E", "F", "G", "H", "I", "J", "K", "L", "M", "N", "O",
   "P", "Q", "R", "S", "T", "U", "V", "W", "X", "Y", "Z"}
LowerCase ==
  {"a", "b", "c", "d", "e", "f", "g", "h", "i", "j", "k", "l", "m", "n", "o",
   "p", "q", "r", "s", "t", "u", "v", "w", "x", "y", "z"}
Digits == {"0", "1", "2", "3", "4", "5", "6", "7", "8", "9"}

\* ord() of the characters of the texts explored here
Ord ==
  ("A" :> 65) @@ ("B" :> 66) @@ ("C" :> 67) @@ ("D" :> 68) @@ ("E" :> 69) @@
  ("F" :> 70) @@ ("G" :> 71) @@ ("H" :> 72) @@ ("I" :> 73) @@ ("J" :> 74) @@
  ("K" :> 75) @@ ("L" :> 76) @@ ("M" :> 77) @@ ("N" :> 78) @@ ("O" :> 79) @@
  ("P" :> 80) @@ ("Q" :> 81) @@ ("R" :> 82) @@ ("S" :> 83) @@ ("T" :> 84) @@
  ("U" :> 85) @@ ("V" :> 86) @@ ("W" :> 87) @@ ("X" :> 88) @@ ("Y" :> 89) @@
  ("Z" :> 90) @@ ("a" :> 97) @@ ("b" :> 98) @@ ("c" :> 99) @@ ("d" :> 100) @@
  ("e" :> 101) @@ ("f" :> 102) @@ ("g" :> 103) @@ ("h" :> 104) @@
  ("i" :> 105) @@ ("j" :> 106) @@ ("k" :> 107) @@ ("l" :> 108) @@
  ("m" :> 109) @@ ("n" :> 110) @@ ("o" :> 111) @@ ("p" :> 112) @@
  ("q" :> 113) @@ ("r" :> 114) @@ ("s" :> 115) @@ ("t" :> 116) @@
  ("u" :> 117) @@ ("v" :> 118) @@ ("w" :> 119) @@ ("x" :> 120) @@
  ("y" :> 121) @@ ("z" :> 122) @@ ("0" :> 48) @@ ("1" :> 49) @@
  ("2" :> 50) @@ ("3" :> 51) @@ ("4" :> 52) @@ ("5" :> 53) @@ ("6" :> 54) @@
  ("7" :> 55) @@ ("8" :> 56) @@ ("9" :> 57) @@ (" " :> 32) @@ ("\t" :> 9) @@
  ("\n" :> 10) @@ ("~" :> 126) @@ ("(" :> 40) @@ (")" :> 41) @@
  ("{" :> 123) @@ ("}" :> 125) @@ ("." :> 46) @@ ("-" :> 45) @@
  ("_" :> 95) @@ ("+" :> 43) @@ ("^" :> 94) @@ ("%" :> 37)

OrdOf(c) == IF c \in DOMAIN Ord THEN Ord[c] ELSE 63

\* ascii_vk: a letter or digit maps to the code of its upper-case form,
\* a few punctuation characters to their OEM codes
ascii_vk ==
  [c \in UpperCase \cup Digits |-> Ord[c]] @@
  [c \in LowerCase |-> Ord[c] - 32] @@
  (" " :> 32) @@ ("-" :> 189) @@ ("." :> 190)

(***************************************************************************)
(* String helpers (str.find, slicing, str.lower, str.split, str.rsplit)    *)
(***************************************************************************)
Whitespace == {" ", "\t", "\n"}

\* a faulty Find: the search starts one position early
Find_Early(string, ch, from) ==
  LET hits == {i \in (from - 1)..(Len(string) - 1) : i >= 0 /\ string[i + 1] = ch}
  IN IF hits = {} THEN -1 ELSE CHOOSE i \in hits : \A j \in hits : i <= j

\* string.find(ch, from): least 0-based index >= from holding ch, else -1
Find(string, ch, from) ==
  LET hits == {i \in from..(Len(string) - 1) : string[i + 1] = ch}
  IN IF hits = {} THEN -1 ELSE CHOOSE i \in hits : \A j \in hits : i <= j

\* string[a:b]
Slice(string, a, b) == SubSeq(string, a + 1, b)

LowerChar(c) ==
  IF c \in UpperCase
    THEN CHOOSE l \in DOMAIN Ord : Ord[l] = Ord[c] + 32
    ELSE c

Lower(s) == [i \in 1..Len(s) |-> LowerChar(s[i])]

\* sub in s  (substring test)
Contains(s, sub) ==
  \E i \in 0..(Len(s) - Len(sub)) : Slice(s, i, i + Len(sub)) = sub

\* s.split(" "): split at every single space, empty parts kept
RECURSIVE SplitSpace(_)
SplitSpace(s) ==
  LET p == Find(s, " ", 0)
  IN IF p = -1 THEN <<s>>
     ELSE <<Slice(s, 0, p)>> \o SplitSpace(Slice(s, p + 1, Len(s)))

RECURSIVE RStrip(_)
RStrip(s) ==
  IF s # <<>> /\ s[Len(s)] \in Whitespace THEN RStrip(Slice(s, 0, Len(s) - 1)) ELSE s

RECURSIVE LStrip(_)
LStrip(s) ==
  IF s # <<>> /\ s[1] \in Whitespace THEN LStrip(Tail(s)) ELSE s

\* s.strip()
Strip(s) == LStrip(RStrip(s))

\* s.rsplit(None, 1): at most one split at the last run of whitespace;
\* the result has two parts only if both are non-empty
RSplit1(s) ==
  LET t == RStrip(s)
      ws == {i \in 0..(Len(t) - 1) : t[i + 1] \in Whitespace}
      p == CHOOSE i \in ws : \A j \in ws : j <= i
      head == RStrip(Slice(t, 0, p))
  IN IF t = <<>> THEN <<>>
     ELSE IF ws = {} \/ head = <<>>
       THEN <<IF ws = {} THEN t ELSE Slice(t, p + 1, Len(t))>>
       ELSE <<head, Slice(t, p + 1, Len(t))>>

\* int(count) succeeds: an optional sign and at least one digit
IsInt(s) ==
  LET d == IF s # <<>> /\ s[1] \in {"+", "-"} THEN Tail(s) ELSE s
  IN d # <<>> /\ \A i \in 1..Len(d) : d[i] \in Digits

DigitVal(c) == OrdOf(c) - 48

RECURSIVE NatVal(_)
NatVal(d) ==
  IF d = <<>> THEN 0 ELSE 10 * NatVal(Slice(d, 0, Len(d) - 1)) + DigitVal(d[Len(d)])

IntVal(s) ==
  IF s[1] = "-" THEN 0 - NatVal(Tail(s))
  ELSE IF s[1] = "+" THEN NatVal(Tail(s)) ELSE NatVal(s)

\* float(count) succeeds: an optional sign, digits with at most one point,
\* at least one digit
IsFloat(s) ==
  LET d == IF s # <<>> /\ s[1] \in {"+", "-"} THEN Tail(s) ELSE s
      dots == {i \in 1..Len(d) : d[i] = "."}
  IN /\ \A i \in 1..Len(d) : d[i] \in Digits \cup {"."}
     /\ Cardinality(dots) <= 1
     /\ \E i \in 1..Len(d) : d[i] \in Digits

Pow10(n) == IF n <= 0 THEN 1 ELSE IF n = 1 THEN 10 ELSE IF n = 2 THEN 100 ELSE 1000

\* float(count) in thousandths (counts here have at most three decimals)
FloatVal(s) ==
  LET neg == s[1] = "-"
      d == IF s[1] \in {"+", "-"} THEN Tail(s) ELSE s
      p == Find(d, ".", 0)
      ip == IF p = -1 THEN d ELSE Slice(d, 0, p)
      fp == IF p = -1 THEN <<>> ELSE Slice(d, p + 1, Len(d))
      v == NatVal(ip) * 1000 + NatVal(fp) * Pow10(3 - Len(fp))
  IN IF neg THEN 0 - v ELSE v

(***************************************************************************)
(* Action model.  One record shape for the four classes: key is the        *)
(* virtual-key code of a VirtualKeyAction (0 otherwise), ch the character  *)
(* of a KeyAction / EscapedKeyAction ("" otherwise).  A PauseAction has    *)
(* only how_long: its __init__ sets no key, down or up attribute, which    *)
(* the record shows as hasKey = FALSE.                                     *)
(***************************************************************************)
KeyAction(c, down, up) ==
  [type |-> "KeyAction", key |-> 0, ch |-> c, down |-> down, up |-> up,
   how_long |-> 0, hasKey |-> TRUE]

VirtualKeyAction(code, down, up) ==
  [type |-> "VirtualKeyAction", key |-> code, ch |-> "", down |-> down, up |-> up,
   how_long |-> 0, hasKey |-> TRUE]

\* a faulty EscapedKeyAction: the character is left a plain KeyAction
EscapedKeyAction_AsKey(c, down, up) ==
  [type |-> "KeyAction", key |-> 0, ch |-> c, down |-> down, up |-> up,
   how_long |-> 0, hasKey |-> TRUE]

EscapedKeyAction(c, down, up) ==
  [type |-> "EscapedKeyAction", key |-> 0, ch |-> c, down |-> down, up |-> up,
   how_long |-> 0, hasKey |-> TRUE]

PauseAction(how_long) ==
  [type |-> "PauseAction", key |-> 0, ch |-> "", down |-> FALSE, up |-> FALSE,
   how_long |-> how_long, hasKey |-> FALSE]

\* isinstance(action.key, six.string_types)
KeyIsString(a) == a.type \in {"KeyAction", "EscapedKeyAction"}

(***************************************************************************)
(* Key-sequence compiler.  A call returns [keys, mods, err]: the list      *)
(* built so far, the modifiers list (a Python list shared by reference     *)
(* with a recursive call when it is non-empty) and the exception raised    *)
(* ("none" when the call returns).                                         *)
(***************************************************************************)
Ok(keys, mods) == [keys |-> keys, mods |-> mods, err |-> "none"]
Raise(kind) == [keys |-> <<>>, mods |-> <<>>, err |-> kind]

\* [x] * count  /  list * count
RECURSIVE Repeat(_, _)
Repeat(lst, count) == IF count <= 0 THEN <<>> ELSE lst \o Repeat(lst, count - 1)

\* a faulty ReleaseModifiers: the pending modifiers are forgotten, none is
\* released
ReleaseModifiers_Forget(keys, mods) == keys

\* while modifiers: keys.append(VirtualKeyAction(modifiers.pop(), down=False))
ReleaseModifiers(keys, mods) ==
  keys \o [i \in 1..Len(mods) |-> VirtualKeyAction(mods[Len(mods) + 1 - i], FALSE, TRUE)]

\* a faulty ApplyKeyEvent: the qualifier clears the flag it should keep too
ApplyKeyEvent_ClearBoth(k, event) ==
  LET e == IF KeyIsString(k) THEN EscapedKeyAction(k.ch, TRUE, TRUE) ELSE k
  IN [e EXCEPT !.down = FALSE, !.up = FALSE]

\* a faulty ApplyKeyEvent: the two branches are exchanged, "up" clears up
ApplyKeyEvent_Swapped(k, event) ==
  LET e == IF KeyIsString(k) THEN EscapedKeyAction(k.ch, TRUE, TRUE) ELSE k
  IN IF Strip(event) = <<"u", "p">> THEN [e EXCEPT !.up = FALSE]
     ELSE [e EXCEPT !.down = FALSE]

\* the down / up qualifier applied to current_keys[0]
ApplyKeyEvent(k, event) ==
  LET e == IF KeyIsString(k) THEN EscapedKeyAction(k.ch, TRUE, TRUE) ELSE k
  IN IF Strip(event) = <<"u", "p">> THEN [e EXCEPT !.down = FALSE]
     ELSE [e EXCEPT !.up = FALSE]

\* with_spaces etc. of a recursive call are the defaults of parse_keys
DefaultOpts(vk_packet) ==
  [with_spaces |-> FALSE, with_tabs |-> FALSE, with_newlines |-> FALSE,
   vk_packet |-> vk_packet]

RECURSIVE parse_keys(_, _, _)
RECURSIVE handle_code(_, _)
RECURSIVE ParseLoop(_, _, _, _, _, _)

handle_code(code, vk_packet) ==
  IF code \in DOMAIN CODES THEN Ok(<<VirtualKeyAction(CODES[code], TRUE, TRUE)>>, <<>>)
  ELSE IF Len(code) = 1 THEN
    IF ~vk_packet /\ code[1] \in DOMAIN ascii_vk
      THEN Ok(<<VirtualKeyAction(ascii_vk[code[1]], TRUE, TRUE)>>, <<>>)
      ELSE Ok(<<KeyAction(code[1], TRUE, TRUE)>>, <<>>)
  ELSE IF \E i \in 1..Len(code) : code[i] = " " THEN
    LET parts == RSplit1(code)
    IN IF Len(parts) # 2 THEN Raise("ValueError")
       ELSE
         LET to_repeat == parts[1]
             count == parts[2]
         IN IF to_repeat = <<"P", "A", "U", "S", "E">> THEN
              IF IsFloat(count) THEN Ok(<<PauseAction(FloatVal(count))>>, <<>>)
              ELSE Raise("KeySequenceError")
            ELSE IF ~IsInt(count) THEN Raise("KeySequenceError")
            ELSE IF to_repeat \in DOMAIN CODES THEN
              Ok(Repeat(<<VirtualKeyAction(CODES[to_repeat], TRUE, TRUE)>>, IntVal(count)), <<>>)
            ELSE
              LET sub == parse_keys(to_repeat, DefaultOpts(vk_packet), <<>>)
              IN IF sub.err # "none" THEN sub
                 ELSE Ok(Repeat(sub.keys, IntVal(count)), <<>>)
  ELSE Raise("RuntimeError")

\* one iteration of the while loop of parse_keys and, recursively, the rest
ParseLoop(string, index0, keys, mods, esc, o) ==
  IF index0 >= Len(string) THEN Ok(ReleaseModifiers(keys, mods), <<>>)
  ELSE
    LET c == string[index0 + 1]
        index == index0 + 1
    IN
    IF c \in DOMAIN MODIFIERS THEN
      ParseLoop(string, index,
                Append(keys, VirtualKeyAction(MODIFIERS[c], TRUE, FALSE)),
                Append(mods, MODIFIERS[c]), esc, o)
    ELSE IF c = "(" THEN
      LET end_pos == Find(string, ")", index)
      IN IF end_pos = -1 THEN Raise("KeySequenceError")
         ELSE
           LET sub == parse_keys(Slice(string, index, end_pos),
                                 DefaultOpts(o.vk_packet), mods)
               \* a non-empty list is shared with the callee, which empties it
               mods1 == IF mods = <<>> THEN <<>> ELSE sub.mods
           IN IF sub.err # "none" THEN sub
              ELSE ParseLoop(string, end_pos + 1,
                             ReleaseModifiers(keys \o sub.keys, mods1), <<>>, esc, o)
    ELSE IF c = "{" THEN
      LET end_pos == Find(string, "}", index + 1)
      IN IF end_pos = -1 THEN Raise("KeySequenceError")
         ELSE
           LET code0 == Slice(string, index, end_pos)
               qualified == \/ Contains(Lower(code0), <<" ", "u", "p">>)
                            \/ Contains(Lower(code0), <<" ", "d", "o", "w", "n">>)
               parts == SplitSpace(code0)
           IN IF qualified /\ Len(parts) # 2 THEN Raise("ValueError")
              ELSE
                LET code == IF qualified THEN parts[1] ELSE code0
                    current == handle_code(code, o.vk_packet)
                    current_keys ==
                      IF qualified
                        THEN <<ApplyKeyEvent(current.keys[1], parts[2])>>
                             \o Tail(current.keys)
                        ELSE current.keys
                IN IF current.err # "none" THEN current
                   ELSE ParseLoop(string, end_pos + 1,
                                  ReleaseModifiers(keys \o current_keys, mods), <<>>,
                                  esc \/ qualified, o)
    ELSE IF c = ")" THEN Raise("KeySequenceError")
    ELSE IF c = "}" THEN Raise("KeySequenceError")
    ELSE IF \/ (c = " " /\ ~o.with_spaces)
            \/ (c = "\t" /\ ~o.with_tabs)
            \/ (c = "\n" /\ ~o.with_newlines)
      THEN ParseLoop(string, index, keys, mods, esc, o)
    ELSE
      LET k == IF c \in {"~", "\n"} THEN VirtualKeyAction(CODES[<<"E","N","T","E","R">>], TRUE, TRUE)
               ELSE IF mods # <<>> \/ esc THEN EscapedKeyAction(c, TRUE, TRUE)
               ELSE IF ~o.vk_packet /\ c \in DOMAIN ascii_vk
                 THEN VirtualKeyAction(ascii_vk[c], TRUE, TRUE)
               ELSE KeyAction(c, TRUE, TRUE)
      IN ParseLoop(string, index, ReleaseModifiers(Append(keys, k), mods), <<>>, esc, o)

\* parse_keys(string, with_spaces, with_tabs, with_newlines, modifiers, vk_packet)
parse_keys(string, o, modifiers) == ParseLoop(string, 0, <<>>, modifiers, FALSE, o)

(***************************************************************************)
(* Key resolution (get_key_info) and the OS layout tables it consults.     *)
(* VkKeyScanW / VkKeyScanExW return a 16-bit value: the virtual-key code   *)
(* in the low byte, the shift state in the high byte, 0xFFFF (-1) when the *)
(* layout has no key for the character.  The layout is the US one.         *)
(***************************************************************************)
VkKeyScanW(c) ==
  IF c \in LowerCase THEN Ord[c] - 32
  ELSE IF c \in UpperCase THEN 256 + Ord[c]
  ELSE IF c \in Digits THEN Ord[c]
  ELSE CASE c = " " -> 32 [] c = "\t" -> 9 [] c = "\n" -> 512 + 13
         [] c = "-" -> 189 [] c = "." -> 190 [] c = "_" -> 256 + 189
         [] c = "+" -> 256 + 187 [] c = "(" -> 256 + 57 [] c = ")" -> 256 + 48
         [] c = "%" -> 256 + 53 [] c = "^" -> 256 + 54
         [] c = "{" -> 256 + 219 [] c = "}" -> 256 + 221 [] c = "~" -> 256 + 192
         [] OTHER -> 65535

\* MapVirtualKeyW(vk, 0): virtual-key code to scan code, 0 if there is none
MapVirtualKeyW(vk) ==
  CASE vk = 9 -> 15 [] vk = 13 -> 28 [] vk = VK_SHIFT -> 42
    [] vk = VK_CONTROL -> 29 [] vk = VK_MENU -> 56 [] vk = 20 -> 58
    [] vk = 38 -> 72 [] vk = 40 -> 80 [] vk = 65 -> 30 [] vk = 66 -> 48
    [] OTHER -> 0

LoByte(val) == val % 256

\* action.get_key_info(): [vk, scan, flags], or err when the call raises.
\* A PauseAction inherits KeyAction._get_key_info, whose ord(self.key)
\* finds no key attribute.
get_key_info(a) ==
  CASE a.type = "KeyAction" ->
         [vk |-> 0, scan |-> OrdOf(a.ch), flags |-> KEYEVENTF_UNICODE, err |-> "none"]
    [] a.type = "VirtualKeyAction" ->
         [vk |-> a.key, scan |-> MapVirtualKeyW(a.key),
          flags |-> IF (33 <= a.key /\ a.key <= 46) \/ (91 <= a.key /\ a.key <= 93)
                      THEN KEYEVENTF_EXTENDEDKEY ELSE 0,
          err |-> "none"]
    [] a.type = "EscapedKeyAction" ->
         [vk |-> LoByte(VkKeyScanW(a.ch)),
          scan |-> MapVirtualKeyW(LoByte(VkKeyScanW(a.ch))), flags |-> 0,
          err |-> "none"]
    [] OTHER -> [vk |-> 0, scan |-> 0, flags |-> 0, err |-> "AttributeError"]

\* "{}".format(n) for an integer n >= 0
DigitChar(d) == CHOOSE c \in Digits : Ord[c] = 48 + d

RECURSIVE FormatInt(_)
FormatInt(n) ==
  IF n < 10 THEN <<DigitChar(n)>>
  ELSE Append(FormatInt(n \div 10), DigitChar(n % 10))

\* a faulty key_description: the table of names is never consulted
key_description_NoNames(a) ==
  LET info == get_key_info(a)
  IN IF info.err # "none" THEN [label |-> <<>>, err |-> info.err]
     ELSE IF a.type = "EscapedKeyAction"
       THEN [label |-> <<"K", "E", "s", "c", " ", a.ch>>, err |-> "none"]
     ELSE IF info.vk # 0
       THEN [label |-> <<"V", "K", " ">> \o FormatInt(info.vk), err |-> "none"]
     ELSE [label |-> <<a.ch>>, err |-> "none"]

\* action.key_description(): the label, or err when the call raises (a
\* PauseAction has no key for _get_key_info)
key_description(a) ==
  LET info == get_key_info(a)
  IN IF info.err # "none" THEN [label |-> <<>>, err |-> info.err]
     ELSE IF a.type = "EscapedKeyAction"
       THEN [label |-> <<"K", "E", "s", "c", " ", a.ch>>, err |-> "none"]
     ELSE IF info.vk # 0
       THEN [label |-> IF info.vk \in DOMAIN CODE_NAMES
                         THEN CODE_NAMES[info.vk]
                         ELSE <<"V", "K", " ">> \o FormatInt(info.vk),
             err |-> "none"]
     ELSE [label |-> <<a.ch>>, err |-> "none"]

(***************************************************************************)
(* Inputs explored.  A text is the concatenation of at most MaxPieces      *)
(* pieces of notation.                                                     *)
(***************************************************************************)
MaxPieces == 3

Pieces ==
  { <<"a">>,
    <<"{","A","}">>,
    <<"+">>,
    <<"%">>,
    <<"{","a"," ","d","o","w","n","}">>,
    <<"{","a"," ","u","p","}">>,
    <<"{","b"," ","d","o","w","n","}">>,
    <<"{","V","K","_","S","H","I","F","T"," ","d","o","w","n","}">>,
    <<"{","P","A","U","S","E"," ","1","}">>,
    <<"{">> }

RECURSIVE Flatten(_)
Flatten(ps) == IF ps = <<>> THEN <<>> ELSE Head(ps) \o Flatten(Tail(ps))

Texts == {Flatten(ps) : ps \in UNION {[1..n -> Pieces] : n \in 0..MaxPieces}}

\* the bytes of the 256-byte keyboard state that the explored texts can
\* touch, and CAPS LOCK (20); the loop writes no other byte
StateKeys == {9, 13, VK_SHIFT, VK_CONTROL, VK_MENU, 20, 38, 40, 65, 66, 255}

\* keyboard states the thread can have when the call starts: nothing
\* pressed, or CAPS LOCK toggled on with the B key held by the user
BaseStates ==
  { [k \in StateKeys |-> 0],
    [k \in StateKeys |-> IF k = 20 THEN 1 ELSE IF k = 66 THEN PRESSED ELSE 0] }

(***************************************************************************)
(* State                                                                   *)
(***************************************************************************)
VARIABLES
  pc,                      \* position in send_keystrokes / send_keys
  text,                    \* keystrokes / keys argument
  opts,                    \* with_spaces, with_tabs, with_newlines, vk_packet
  attach_success,          \* AttachThreadInput(..., True) != 0
  thread_input,            \* AttachThreadInput calls made, in order
  warned,                  \* warnings.warn calls made, in order
  kbd,                     \* keyboard state of the thread (Get/SetKeyboardState)
  base,                    \* the snapshot GetKeyboardState returned at the start
  keyboard_state_stack,
  context_code,
  keys,                    \* the compiled sequence
  index,                   \* 1-based position of the loop in keys
  loc,                     \* locals of one loop iteration of send_keystrokes
  posted,                  \* PostMessage calls made, in order
  events,                  \* input events the OS inserted (SendInput), in order
  exc,                     \* exception in flight, or "none"
  loop_exc,                \* the exception the try block of send_keystrokes raised
  keystopress,             \* press_multiple_keys: the keys argument
  presstime,               \* the presstime argument, in ticks of 1/200000 s
  percentofregularpresstime,
  presstime_int,           \* int(presstime * 10000)
  allk,                    \* [key, len(chunk), chunk] per zipped pair
  restsleep,               \* in ticks
  segtim,                  \* in ticks
  threadlist,              \* the threads started, in order
  now,                     \* ticks slept by the caller since the call
  sleeptimeall,            \* press_multiple_keys_own_interval: the sleeps
  restssleep               \* press_multiple_keys_own_interval: the last sleep

vars ==
  <<pc, text, opts, attach_success, thread_input,
    warned, kbd, base, keyboard_state_stack, context_code, keys, index, loc,
    posted, events, exc, loop_exc, keystopress, presstime,
    percentofregularpresstime, presstime_int, allk, restsleep, segtim,
    threadlist, now, sleeptimeall, restssleep>>

\* the variables of press_multiple_keys and press_multiple_keys_own_interval
schedvars ==
  <<keystopress, presstime, percentofregularpresstime, presstime_int, allk,
    restsleep, segtim, threadlist, now, sleeptimeall, restssleep>>

\* press_multiple_keys has not been called
SchedIdle ==
  /\ keystopress = <<>>
  /\ presstime = 0
  /\ percentofregularpresstime = 100
  /\ presstime_int = 0
  /\ allk = <<>>
  /\ restsleep = 0
  /\ segtim = 0
  /\ threadlist = <<>>
  /\ now = 0
  /\ sleeptimeall = <<>>
  /\ restssleep = 0

NoLoc == [vk |-> 0, scan |-> 0, flags |-> 0, shift_state |-> 0,
          down_msg |-> 0, up_msg |-> 0]

\* the state before either entry point has run
InitCommon ==
  /\ pc = "start"
  /\ text \in Texts
  /\ attach_success = FALSE
  /\ thread_input = <<>>
  /\ warned = <<>>
  /\ base = kbd
  /\ keyboard_state_stack = <<>>
  /\ context_code = 0
  /\ keys = <<>>
  /\ index = 1
  /\ loc = NoLoc
  /\ posted = <<>>
  /\ events = <<>>
  /\ exc = "none"
  /\ loop_exc = "none"
  /\ SchedIdle

(***************************************************************************)
(* Targeted injection: send_keystrokes.  The activation of the window      *)
(* before and after (activate_window_before) touches none of the state     *)
(* below and is left out.                                                  *)
(***************************************************************************)
\* send_keystrokes is called with its default with_spaces, with_tabs,
\* with_newlines; parse_keys is called with its default vk_packet
Init ==
  /\ kbd \in BaseStates
  /\ InitCommon
  /\ opts = [with_spaces |-> TRUE, with_tabs |-> TRUE, with_newlines |-> TRUE,
             vk_packet |-> TRUE]

\* new_keyboard_state[vk] |= 128
OrPressed(byte) == IF (byte \div PRESSED) % 2 = 1 THEN byte ELSE byte + PRESSED

\* the snapshot pushed by a down transition
PushSnapshot(top, vk, shift_state) ==
  LET s1 == [top EXCEPT ![vk] = OrPressed(top[vk])]
  IN IF shift_state % 2 = 1
       THEN [s1 EXCEPT ![VK_SHIFT] = OrPressed(s1[VK_SHIFT])]
       ELSE s1

\* a faulty StackPop: the up transition forgets to pop
StackPop_Keep(stack) == stack

\* keyboard_state_stack.pop()
StackPop(stack) == SubSeq(stack, 1, Len(stack) - 1)

\* a faulty MessagePair: the context flag is ignored
MessagePair_KeyOnly(vk, ctx) ==
  IF vk = VK_MENU
    THEN <<WM_SYSKEYDOWN, WM_SYSKEYUP>>
    ELSE <<WM_KEYDOWN, WM_KEYUP>>

\* the message pair of one iteration: <<down_msg, up_msg>>
MessagePair(vk, ctx) ==
  IF vk = VK_MENU \/ ctx = 1
    THEN <<WM_SYSKEYDOWN, WM_SYSKEYUP>>
    ELSE <<WM_KEYDOWN, WM_KEYUP>>

\* lparam of a posted message, by bit field: repeat (bits 0-15), scan
\* (16-23), extended (24), context (29), previous (30), transition (31);
\* an up message sets previous and transition
Lparam(scan, flags, ctx, up) ==
  [repeat |-> 1, scan |-> scan, extended |-> flags % 2, context |-> ctx,
   previous |-> up, transition |-> up]

PostMessage(msg, vk, lparam) == [msg |-> msg, vk |-> vk, lparam |-> lparam]

\* a faulty HandlerSnapshot: the except clause applies the nearest
\* snapshot, keyboard_state_stack[-1]
HandlerSnapshot_Top(stack) == stack[Len(stack)]

\* the snapshot the except clause applies: keyboard_state_stack[0]
HandlerSnapshot(stack) == stack[1]

\* lines 3058-3072: attach the input queues, capture the base snapshot
Attach ==
  /\ pc = "start"
  /\ \E ok \in BOOLEAN :
       /\ attach_success' = ok
       /\ thread_input' = Append(thread_input, "attach")
       /\ warned' = IF ok THEN warned ELSE Append(warned, "attach failed")
  /\ keyboard_state_stack' = <<kbd>>
  /\ base' = kbd
  /\ context_code' = 0
  /\ pc' = "parse"
  /\ UNCHANGED <<text, opts, kbd, keys, index, loc, posted, events, exc,
                 loop_exc>>
  /\ UNCHANGED schedvars

\* lines 3074-3081: compile the text; an error of parse_keys leaves the call
Parse ==
  /\ pc = "parse"
  /\ LET r == parse_keys(text, opts, <<>>)
     IN IF r.err # "none"
          THEN /\ exc' = r.err
               /\ pc' = "raised"
               /\ UNCHANGED <<keys, warned>>
          ELSE /\ keys' = r.keys
               /\ warned' = IF \E i \in 1..Len(r.keys) : r.keys[i].type = "EscapedKeyAction"
                              THEN Append(warned, "key combinations") ELSE warned
               /\ pc' = "loop"
               /\ exc' = exc
  /\ index' = 1
  /\ UNCHANGED <<text, opts, attach_success, thread_input, kbd, base,
                 keyboard_state_stack, context_code, loc, posted, events,
                 loop_exc>>
  /\ UNCHANGED schedvars

\* line 3084, loop exhausted: leave the try block
LoopEnd ==
  /\ pc = "loop"
  /\ index > Len(keys)
  /\ pc' = "detach"
  /\ UNCHANGED <<text, opts, attach_success, thread_input, warned, kbd, base,
                 keyboard_state_stack, context_code, keys, index, loc, posted,
                 events, exc, loop_exc>>
  /\ UNCHANGED schedvars

\* lines 3085-3100: resolve the key of the iteration
LoopHead ==
  /\ pc = "loop"
  /\ index <= Len(keys)
  /\ LET info == get_key_info(keys[index])
         unicode_codepoint == (info.flags \div KEYEVENTF_UNICODE) % 2 = 1
         msgs == MessagePair(info.vk, context_code)
         vk_with_flags == VkKeyScanW(CHOOSE c \in DOMAIN Ord : Ord[c] = info.scan)
         vk == IF unicode_codepoint THEN vk_with_flags % 256 ELSE info.vk
     IN IF info.err # "none"
          THEN /\ loop_exc' = info.err
               /\ pc' = "except"
               /\ loc' = loc
          ELSE /\ loc' = [vk |-> vk,
                          scan |-> IF unicode_codepoint THEN MapVirtualKeyW(vk)
                                   ELSE info.scan,
                          flags |-> info.flags,
                          shift_state |-> IF unicode_codepoint
                                            THEN vk_with_flags \div 256 ELSE 0,
                          down_msg |-> msgs[1], up_msg |-> msgs[2]]
               /\ pc' = "key_down"
               /\ loop_exc' = loop_exc
  /\ UNCHANGED <<text, opts, attach_success, thread_input, warned, kbd, base,
                 keyboard_state_stack, context_code, keys, index, posted,
                 events, exc>>
  /\ UNCHANGED schedvars

\* lines 3102-3124: the down transition of the iteration
KeyDown ==
  /\ pc = "key_down"
  /\ IF keys[index].down /\ loc.vk > 0
       THEN LET new_keyboard_state ==
                  PushSnapshot(keyboard_state_stack[Len(keyboard_state_stack)],
                               loc.vk, loc.shift_state)
            IN /\ keyboard_state_stack' = Append(keyboard_state_stack, new_keyboard_state)
               /\ kbd' = new_keyboard_state
               /\ posted' = Append(posted,
                                   PostMessage(loc.down_msg, loc.vk,
                                               Lparam(loc.scan, loc.flags, context_code, 0)))
               /\ context_code' = IF loc.vk = VK_MENU THEN 1 ELSE context_code
       ELSE UNCHANGED <<keyboard_state_stack, kbd, posted, context_code>>
  /\ pc' = "key_up"
  /\ UNCHANGED <<text, opts, attach_success, thread_input, warned, base, keys,
                 index, loc, events, exc, loop_exc>>
  /\ UNCHANGED schedvars

\* lines 3126-3145: the up transition of the iteration.  After the pop the
\* message is posted, then keyboard_state_stack[-1] is read: an IndexError
\* when the pop removed the only entry.
KeyUp ==
  /\ pc = "key_up"
  /\ IF keys[index].up /\ loc.vk > 0
       THEN LET popped == StackPop(keyboard_state_stack)
            IN /\ keyboard_state_stack' = popped
               /\ posted' = Append(posted,
                                   PostMessage(loc.up_msg, loc.vk,
                                               Lparam(loc.scan, loc.flags, context_code, 1)))
               /\ IF popped = <<>>
                    THEN /\ loop_exc' = "IndexError"
                         /\ pc' = "except"
                         /\ UNCHANGED <<kbd, context_code, index>>
                    ELSE /\ kbd' = popped[Len(popped)]
                         /\ context_code' = IF loc.vk = VK_MENU THEN 0 ELSE context_code
                         /\ index' = index + 1
                         /\ pc' = "loop"
                         /\ loop_exc' = loop_exc
       ELSE /\ index' = index + 1
            /\ pc' = "loop"
            /\ UNCHANGED <<keyboard_state_stack, kbd, posted, context_code, loop_exc>>
  /\ UNCHANGED <<text, opts, attach_success, thread_input, warned, base, keys,
                 loc, events, exc>>
  /\ UNCHANGED schedvars

\* lines 3147-3149: the except clause.  It applies keyboard_state_stack[0]
\* and falls through to the code after the try statement; reading entry 0
\* of an empty stack raises out of the call.
Except ==
  /\ pc = "except"
  /\ IF keyboard_state_stack = <<>>
       THEN /\ exc' = "IndexError"
            /\ pc' = "raised"
            /\ kbd' = kbd
       ELSE /\ kbd' = HandlerSnapshot(keyboard_state_stack)
            /\ pc' = "detach"
            /\ exc' = exc
  /\ UNCHANGED <<text, opts, attach_success, thread_input, warned, base,
                 keyboard_state_stack, context_code, keys, index, loc, posted,
                 events, loop_exc>>
  /\ UNCHANGED schedvars

\* lines 3151-3152
Detach ==
  /\ pc = "detach"
  /\ thread_input' = IF attach_success THEN Append(thread_input, "detach")
                     ELSE thread_input
  /\ pc' = "done"
  /\ UNCHANGED <<text, opts, attach_success, warned, kbd, base,
                 keyboard_state_stack, context_code, keys, index, loc, posted,
                 events, exc, loop_exc>>
  /\ UNCHANGED schedvars

Next ==
  \/ Attach
  \/ Parse
  \/ LoopEnd
  \/ LoopHead
  \/ KeyDown
  \/ KeyUp
  \/ Except
  \/ Detach

Spec == Init /\ [][Next]_vars

(***************************************************************************)
(* Global injection: KeyAction.run, Press, send_keys (window activation    *)
(* left out, as above)                                                     *)
(***************************************************************************)
\* an INPUT structure / an inserted input event
Input(vk, scan, flags) == [wVk |-> vk, wScan |-> scan, dwFlags |-> flags]

\* action.GetInput(): one structure per requested transition, the flags of
\* the action on each, KEYEVENTF_KEYUP on the last one when up is requested
GetInput(a) ==
  LET info == get_key_info(a)
      plain == Input(info.vk, info.scan, info.flags)
      release == Input(info.vk, info.scan, info.flags + KEYEVENTF_KEYUP)
  IN IF a.up /\ a.down THEN <<plain, release>>
     ELSE IF a.up THEN <<release>>
     ELSE <<plain>>

\* Press(keycode): the two structures it sends, one SendInput call each
Press(keycode) ==
  << Input(keycode, MapVirtualKeyW(keycode), 0),
     Input(keycode, MapVirtualKeyW(keycode), KEYEVENTF_KEYUP) >>

\* the structures action.run() hands to SendInput, in order: KeyAction.run
\* sends GetInput() in one call, VirtualKeyAction.run and
\* EscapedKeyAction.run call Press(inp.ki.wVk) for every structure of
\* GetInput(), PauseAction.run only sleeps
RunInputs(a) ==
  CASE a.type = "KeyAction" -> GetInput(a)
    [] a.type = "PauseAction" -> <<>>
    [] OTHER -> Flatten([i \in 1..Len(GetInput(a)) |-> Press(GetInput(a)[i].wVk)])

\* a faulty RunError: every run relies on _check_count alone, which raises
\* only when a call inserted nothing
RunError_ZeroOnly(a, m) ==
  IF m = 0 /\ Len(RunInputs(a)) > 0
    THEN (IF a.type = "KeyAction" THEN "RuntimeError" ELSE "OSError")
    ELSE "none"

\* the exception of a run in which the OS inserted only m of the events:
\* KeyAction.run compares the count itself, Press relies on _check_count
RunError(a, m) ==
  IF m = Len(RunInputs(a)) THEN "none"
  ELSE IF a.type = "KeyAction" THEN "RuntimeError" ELSE "OSError"

\* send_keys is called with its default with_spaces, with_tabs, with_newlines
InitGlobal ==
  /\ kbd = [k \in StateKeys |-> 0]
  /\ InitCommon
  /\ \E vk_packet \in BOOLEAN :
       opts = [with_spaces |-> FALSE, with_tabs |-> FALSE, with_newlines |-> FALSE,
               vk_packet |-> vk_packet]

\* line 2610
SendKeysParse ==
  /\ pc = "start"
  /\ LET r == parse_keys(text, opts, <<>>)
     IN IF r.err # "none"
          THEN /\ exc' = r.err
               /\ pc' = "raised"
               /\ keys' = keys
          ELSE /\ keys' = r.keys
               /\ pc' = "loop"
               /\ exc' = exc
  /\ index' = 1
  /\ UNCHANGED <<text, opts, attach_success, thread_input, warned, kbd, base,
                 keyboard_state_stack, context_code, loc, posted, events,
                 loop_exc>>
  /\ UNCHANGED schedvars

\* lines 2612-2614: k.run() for the next action; the OS inserts the first m
\* of the events the run sends, and the run raises when m is not all of them
SendKeysRun ==
  /\ pc = "loop"
  /\ index <= Len(keys)
  /\ \E m \in 0..Len(RunInputs(keys[index])) :
       /\ events' = events \o [n \in 1..m |->
                                 [input |-> RunInputs(keys[index])[n], by |-> index]]
       /\ IF RunError(keys[index], m) # "none"
            THEN /\ exc' = RunError(keys[index], m)
                 /\ pc' = "raised"
                 /\ index' = index
            ELSE /\ index' = index + 1
                 /\ UNCHANGED <<pc, exc>>
  /\ UNCHANGED <<text, opts, attach_success, thread_input, warned, kbd, base,
                 keyboard_state_stack, context_code, keys, loc, posted,
                 loop_exc>>
  /\ UNCHANGED schedvars

\* line 2612, list exhausted: the call returns
SendKeysEnd ==
  /\ pc = "loop"
  /\ index > Len(keys)
  /\ pc' = "done"
  /\ UNCHANGED <<text, opts, attach_success, thread_input, warned, kbd, base,
                 keyboard_state_stack, context_code, keys, index, loc, posted,
                 events, exc, loop_exc>>
  /\ UNCHANGED schedvars

NextGlobal ==
  \/ SendKeysParse
  \/ SendKeysRun
  \/ SendKeysEnd

SpecGlobal == InitGlobal /\ [][NextGlobal]_vars

(***************************************************************************)
(* The compiler on its own: a call parse_keys(text, with_spaces,           *)
(* with_tabs, with_newlines, vk_packet=vk_packet) with the default empty   *)
(* modifiers list.  A text is the concatenation of at most MaxParsePieces  *)
(* fragments of notation.                                                  *)
(***************************************************************************)
MaxParsePieces == 2

ParsePieces ==
  { <<"a">>, <<"b">>, <<"1">>, <<"+">>, <<"^">>, <<"%">>, <<"~">>,
    <<" ">>, <<"\t">>, <<"\n">>,
    <<"{">>, <<"}">>, <<"(">>, <<")">>,
    <<"(","a","b",")">>,
    <<"(","+","a","b",")">>,
    <<"(","a"," ","b",")">>,
    <<"{","T","A","B">>,
    <<"{","F","O","O","}">>,
    <<"{","a"," "," ","d","o","w","n","}">>,
    <<"{","P","A","U","S","E"," ","x","}">>,
    <<"{","D","O","W","N"," ","x","}">>,
    <<"{","P","A","U","S","E"," ","1",".","5","}">>,
    <<"{","D","O","W","N"," ","3","}">>,
    <<"{","a","b"," ","2","}">>,
    <<"{","a"," ","b"," ","2","}">>,
    <<"{","U","P"," ","d","o","w","n","}">>,
    <<"{","U","P"," ","u","p","}">>,
    <<"{","a"," ","d","o","w","n","}">>,
    <<"{","a"," ","u","p","}">>,
    <<"{","a"," ","u","p","x","}">>,
    <<"{","(","}">>, <<"{",")","}">>, <<"{","{","}">>, <<"{","}","}">>,
    <<"{","E","N","T","E","R","}">>, <<"{","E","n","t","e","r","}">>,
    <<"(","(","a",")","b",")">>,
    <<"(","a","{",")","}","b",")">>,
    <<"{","a"," ","U","P","}">>,
    <<"{","a"," ","D","O","W","N","}">> }

ParseTexts ==
  {Flatten(ps) : ps \in UNION {[1..n -> ParsePieces] : n \in 0..MaxParsePieces}}

\* the caller's choice of the four options of parse_keys
ParseOpts ==
  [with_spaces : BOOLEAN, with_tabs : BOOLEAN, with_newlines : BOOLEAN,
   vk_packet : BOOLEAN]

InitParse ==
  /\ pc = "start"
  /\ text \in ParseTexts
  /\ opts \in ParseOpts
  /\ attach_success = FALSE
  /\ thread_input = <<>>
  /\ warned = <<>>
  /\ kbd = [k \in StateKeys |-> 0]
  /\ base = kbd
  /\ keyboard_state_stack = <<>>
  /\ context_code = 0
  /\ keys = <<>>
  /\ index = 1
  /\ loc = NoLoc
  /\ posted = <<>>
  /\ events = <<>>
  /\ exc = "none"
  /\ loop_exc = "none"
  /\ SchedIdle

\* the call itself: it returns the list of actions or raises
ParseKeys ==
  /\ pc = "start"
  /\ LET r == parse_keys(text, opts, <<>>)
     IN IF r.err # "none"
          THEN /\ exc' = r.err
               /\ pc' = "raised"
               /\ keys' = keys
          ELSE /\ keys' = r.keys
               /\ pc' = "done"
               /\ exc' = exc
  /\ UNCHANGED <<text, opts, attach_success, thread_input, warned, kbd, base,
                 keyboard_state_stack, context_code, index, loc, posted,
                 events, loop_exc>>
  /\ UNCHANGED schedvars

NextParse == ParseKeys

SpecParse == InitParse /\ [][NextParse]_vars

(***************************************************************************)
(* The scheduler: press_multiple_keys.  Times are whole ticks; the clock   *)
(* advances by the sleeps of the caller, each lasting exactly its          *)
(* argument.  The threads run Press at their own pace; a SendInput call of  *)
(* Press inserts its event or inserts nothing, and then _check_count       *)
(* raises in the thread.                                                   *)
(***************************************************************************)
MaxKeys == 3

\* ticks per second: the finest step of the arithmetic, presstime / 200000
TicksPerSecond == 200000

\* ticks in 1/10000 s, the unit of presstime after presstime *= 10000
TicksPerUnit == TicksPerSecond \div 10000

\* the key codes of keystopress
PressKeys == {65, 66}

KeyLists == UNION {[1..n -> PressKeys] : n \in 0..MaxKeys}

\* the presstime arguments, in ticks: 0.00005 s, 0.0002 s, 0.0003 s,
\* 0.05 s, 0.1 s, 1 s and the default 1.1 s
PressTimes == {10, 40, 60, 10000, 20000, 200000, 220000}

\* the percentofregularpresstime arguments, 100 the default
Scales == {50, 100, 200}

\* logsplit yields chunk n (n = 0, 1, ...) as the next element of the
\* iterator and up to n more: over range(stop) the n-th chunk starts at
\* element n(n+1)/2, and the chunks end with the iterator
logsplit(n, stop) ==
  LET lo == (n * (n + 1)) \div 2
      size == IF n + 1 <= stop - lo THEN n + 1 ELSE stop - lo
  IN [j \in 1..size |-> lo + j - 1]

\* list(log_split(range(stop)))
log_split(stop) ==
  LET count == CHOOSE m \in 0..stop :
                 /\ (m * (m + 1)) \div 2 >= stop
                 /\ m > 0 => ((m - 1) * m) \div 2 < stop
  IN [n \in 1..count |-> logsplit(n - 1, stop)]

\* [[k[0], len(k[1]), k[1]] for k in zip(keystopress, chunks)]
Zip(ks, chunks) ==
  [i \in 1..(IF Len(ks) <= Len(chunks) THEN Len(ks) ELSE Len(chunks)) |->
     [key |-> ks[i], len |-> Len(chunks[i]), chunk |-> chunks[i]]]

RECURSIVE timehold(_, _)
\* sum([k[1] * 100 / percentofregularpresstime for k in allk]), a number of
\* 1/10000 s, in ticks
timehold(ks, scale) ==
  IF ks = <<>> THEN 0
  ELSE (ks[1].len * 100 * TicksPerUnit) \div scale + timehold(Tail(ks), scale)

\* subnu = k[1] * 100 / percentofregularpresstime / 10 seconds, in ticks
subnu(k, scale) == (k.len * 100 * TicksPerSecond) \div (scale * 10)

\* a faulty delay: the hold time is the tenth of subnu
delay_BySize(pint, k, scale) == subnu(k, scale) \div 10

\* (presstime - subnu) / 10 with presstime = int(...) / 10000 seconds: the
\* delay handed to Press, in ticks
delay(pint, k, scale) ==
  (pint * TicksPerUnit - subnu(k, scale)) \div 10

\* press_multiple_keys is called
InitPress ==
  /\ pc = "start"
  /\ keystopress \in KeyLists
  /\ presstime \in PressTimes
  /\ percentofregularpresstime \in Scales
  /\ presstime_int = 0
  /\ allk = <<>>
  /\ restsleep = 0
  /\ segtim = 0
  /\ threadlist = <<>>
  /\ now = 0
  /\ sleeptimeall = <<>>
  /\ restssleep = 0
  /\ text = <<>>
  /\ opts = DefaultOpts(TRUE)
  /\ attach_success = FALSE
  /\ thread_input = <<>>
  /\ warned = <<>>
  /\ kbd = [k \in StateKeys |-> 0]
  /\ base = kbd
  /\ keyboard_state_stack = <<>>
  /\ context_code = 0
  /\ keys = <<>>
  /\ index = 1
  /\ loc = NoLoc
  /\ posted = <<>>
  /\ events = <<>>
  /\ exc = "none"
  /\ loop_exc = "none"

\* lines 3195-3207: the split and the rest of the time
PressStart ==
  /\ pc = "start"
  /\ LET pint == presstime \div TicksPerUnit
         ks == Zip(keystopress, log_split(pint))
     IN /\ presstime_int' = pint
        /\ segtim' = pint * (TicksPerSecond \div 200000)
        /\ allk' = ks
        /\ restsleep' = pint * TicksPerUnit
                           - timehold(ks, percentofregularpresstime)
  /\ pc' = "loop"
  /\ UNCHANGED <<text, opts, attach_success, thread_input, warned, kbd, base,
                 keyboard_state_stack, context_code, keys, index, loc, posted,
                 events, exc, loop_exc, keystopress, presstime,
                 percentofregularpresstime, threadlist, now, sleeptimeall,
                 restssleep>>

\* lines 3208-3218: one iteration of the loop starts the thread of the next
\* key and sleeps subnu
StartThread ==
  /\ pc = "loop"
  /\ Len(threadlist) < Len(allk)
  /\ LET k == allk[Len(threadlist) + 1]
     IN /\ threadlist' =
             Append(threadlist,
                    [key |-> k.key,
                     delay |-> delay(presstime_int, k, percentofregularpresstime),
                     start |-> now,
                     state |-> "started"])
        /\ now' = now + subnu(k, percentofregularpresstime)
  /\ UNCHANGED <<pc, text, opts, attach_success, thread_input, warned, kbd,
                 base, keyboard_state_stack, context_code, keys, index, loc,
                 posted, events, exc, loop_exc, keystopress, presstime,
                 percentofregularpresstime, presstime_int, allk, restsleep,
                 segtim, sleeptimeall, restssleep>>

\* line 3219: time.sleep(restsleep + segtim), a ValueError when negative
FinalSleep ==
  /\ pc = "loop"
  /\ Len(threadlist) = Len(allk)
  /\ IF restsleep + segtim < 0
       THEN /\ exc' = "ValueError"
            /\ pc' = "raised"
            /\ now' = now
       ELSE /\ now' = now + restsleep + segtim
            /\ pc' = "done"
            /\ exc' = exc
  /\ UNCHANGED <<text, opts, attach_success, thread_input, warned, kbd, base,
                 keyboard_state_stack, context_code, keys, index, loc, posted,
                 events, loop_exc, keystopress, presstime,
                 percentofregularpresstime, presstime_int, allk, restsleep,
                 segtim, threadlist, sleeptimeall, restssleep>>

\* Press in thread i, lines 1230-1231: the key goes down, or the OS
\* inserts nothing and _check_count raises OSError in the thread
ThreadDown(i) ==
  /\ i \in 1..Len(threadlist)
  /\ threadlist[i].state = "started"
  /\ \E inserted \in BOOLEAN :
       IF inserted
         THEN /\ events' = Append(events, Press(threadlist[i].key)[1])
              /\ threadlist' = [threadlist EXCEPT ![i].state = "down"]
         ELSE /\ events' = events
              /\ threadlist' = [threadlist EXCEPT ![i].state = "rejected"]
  /\ UNCHANGED <<pc, text, opts, attach_success, thread_input, warned, kbd,
                 base, keyboard_state_stack, context_code, keys, index, loc,
                 posted, exc, loop_exc, keystopress, presstime,
                 percentofregularpresstime, presstime_int, allk, restsleep,
                 segtim, now, sleeptimeall, restssleep>>

\* Press in thread i, lines 1232-1236: time.sleep(delay), a ValueError that
\* ends the thread when delay is negative, then the key goes up, or the OS
\* inserts nothing and _check_count raises OSError in the thread
ThreadUp(i) ==
  /\ i \in 1..Len(threadlist)
  /\ threadlist[i].state = "down"
  /\ IF threadlist[i].delay < 0
       THEN /\ threadlist' = [threadlist EXCEPT ![i].state = "raised"]
            /\ events' = events
       ELSE \E inserted \in BOOLEAN :
              IF inserted
                THEN /\ threadlist' = [threadlist EXCEPT ![i].state = "done"]
                     /\ events' = Append(events, Press(threadlist[i].key)[2])
                ELSE /\ threadlist' = [threadlist EXCEPT ![i].state = "rejected"]
                     /\ events' = events
  /\ UNCHANGED <<pc, text, opts, attach_success, thread_input, warned, kbd,
                 base, keyboard_state_stack, context_code, keys, index, loc,
                 posted, exc, loop_exc, keystopress, presstime,
                 percentofregularpresstime, presstime_int, allk, restsleep,
                 segtim, now, sleeptimeall, restssleep>>

NextPress ==
  \/ PressStart
  \/ StartThread
  \/ FinalSleep
  \/ \E i \in 1..MaxKeys : ThreadDown(i)
  \/ \E i \in 1..MaxKeys : ThreadUp(i)

SpecPress == InitPress /\ [][NextPress]_vars

\* the caller keeps running, and every thread started keeps being
\* scheduled until its Press has ended
SpecPressFair ==
  /\ SpecPress
  /\ WF_vars(PressStart \/ StartThread \/ FinalSleep)
  /\ \A i \in 1..MaxKeys : WF_vars(ThreadDown(i)) /\ WF_vars(ThreadUp(i))

(***************************************************************************)
(* The scheduler with explicit start times:                                *)
(* press_multiple_keys_own_interval.  Start times are offsets from the     *)
(* call, none negative, in whole ticks.                                    *)
(***************************************************************************)
\* the [start_time, key_code] pairs of keystopress
OwnPairs == {<<0, 65>>, <<1, 65>>, <<1, 66>>, <<2, 65>>}

OwnLists == UNION {[1..n -> OwnPairs] : n \in 0..MaxKeys}

\* the presstime arguments
OwnTimes == {1, 2, 3}

\* np.diff over the start times, then 0
Diffs(ks) ==
  [i \in 1..(IF Len(ks) = 0 THEN 1 ELSE Len(ks)) |->
     IF i < Len(ks) THEN ks[i + 1][1] - ks[i][1] ELSE 0]

\* np.max
Max(seq) == CHOOSE m \in {seq[i] : i \in 1..Len(seq)} :
              \A i \in 1..Len(seq) : seq[i] <= m

\* a faulty ausfu: every key is held for the whole presstime
ausfu_Whole(totalpresstime, k) == totalpresstime

\* ausfu = totalpresstime - k[0]
ausfu(totalpresstime, k) == totalpresstime - k[1]

\* press_multiple_keys_own_interval is called
InitOwn ==
  /\ pc = "start"
  /\ keystopress \in OwnLists
  /\ presstime \in OwnTimes
  /\ percentofregularpresstime = 100
  /\ presstime_int = 0
  /\ allk = <<>>
  /\ restsleep = 0
  /\ segtim = 0
  /\ threadlist = <<>>
  /\ now = 0
  /\ sleeptimeall = <<>>
  /\ restssleep = 0
  /\ text = <<>>
  /\ opts = DefaultOpts(TRUE)
  /\ attach_success = FALSE
  /\ thread_input = <<>>
  /\ warned = <<>>
  /\ kbd = [k \in StateKeys |-> 0]
  /\ base = kbd
  /\ keyboard_state_stack = <<>>
  /\ context_code = 0
  /\ keys = <<>>
  /\ index = 1
  /\ loc = NoLoc
  /\ posted = <<>>
  /\ events = <<>>
  /\ exc = "none"
  /\ loop_exc = "none"

\* lines 3233-3240: the sleeps between the starts and the last sleep
OwnStart ==
  /\ pc = "start"
  /\ sleeptimeall' = Diffs(keystopress)
  /\ restssleep' = presstime - Max(Diffs(keystopress))
  /\ pc' = "own_loop"
  /\ UNCHANGED <<text, opts, attach_success, thread_input, warned, kbd, base,
                 keyboard_state_stack, context_code, keys, index, loc, posted,
                 events, exc, loop_exc, keystopress, presstime,
                 percentofregularpresstime, presstime_int, allk, restsleep,
                 segtim, threadlist, now>>

\* lines 3241-3251: one iteration of the loop starts the thread of the next
\* key and sleeps tim, a ValueError when tim is negative
OwnStartThread ==
  /\ pc = "own_loop"
  /\ Len(threadlist) < Len(keystopress)
  /\ LET k == keystopress[Len(threadlist) + 1]
         tim == sleeptimeall[Len(threadlist) + 1]
     IN /\ threadlist' =
             Append(threadlist,
                    [key |-> k[2], delay |-> ausfu(presstime, k),
                     start |-> now, state |-> "started"])
        /\ IF tim < 0
             THEN /\ exc' = "ValueError"
                  /\ pc' = "raised"
                  /\ now' = now
             ELSE /\ now' = now + tim
                  /\ UNCHANGED <<pc, exc>>
  /\ UNCHANGED <<text, opts, attach_success, thread_input, warned, kbd, base,
                 keyboard_state_stack, context_code, keys, index, loc, posted,
                 events, loop_exc, keystopress, presstime,
                 percentofregularpresstime, presstime_int, allk, restsleep,
                 segtim, sleeptimeall, restssleep>>

\* line 3252: time.sleep(restssleep), a ValueError when negative
OwnFinalSleep ==
  /\ pc = "own_loop"
  /\ Len(threadlist) = Len(keystopress)
  /\ IF restssleep < 0
       THEN /\ exc' = "ValueError"
            /\ pc' = "raised"
            /\ now' = now
       ELSE /\ now' = now + restssleep
            /\ pc' = "done"
            /\ exc' = exc
  /\ UNCHANGED <<text, opts, attach_success, thread_input, warned, kbd, base,
                 keyboard_state_stack, context_code, keys, index, loc, posted,
                 events, loop_exc, keystopress, presstime,
                 percentofregularpresstime, presstime_int, allk, restsleep,
                 segtim, threadlist, sleeptimeall, restssleep>>

NextOwn ==
  \/ OwnStart
  \/ OwnStartThread
  \/ OwnFinalSleep
  \/ \E i \in 1..MaxKeys : ThreadDown(i)
  \/ \E i \in 1..MaxKeys : ThreadUp(i)

SpecOwn == InitOwn /\ [][NextOwn]_vars

(***************************************************************************)
(* Properties of send_keystrokes (specification Spec)                      *)
(***************************************************************************)
\* every byte the loop writes is one of StateKeys
StateKeysCover == loc.vk \in StateKeys \cup {0}

\* the call has left send_keystrokes / send_keys: returned or raised
Exited == pc \in {"done", "raised"}

\* parse_keys raised (the only exception of send_keystrokes that is not an
\* IndexError of the loop or its handler)
ParseFailed == pc = "raised" /\ exc # "IndexError"

Count(seq, x) == Cardinality({i \in 1..Len(seq) : seq[i] = x})

\* the virtual-key code the loop of send_keystrokes works with for an action
LoopVk(a) ==
  IF a.type = "KeyAction" THEN VkKeyScanW(a.ch) % 256 ELSE get_key_info(a).vk

HasPause(ks) == \E i \in 1..Len(ks) : ks[i].type = "PauseAction"

\* the transitions an action requests, in order
TransitionsOf(a) ==
  IF a.type = "PauseAction" \/ LoopVk(a) = 0 THEN <<>>
  ELSE (IF a.down THEN <<[vk |-> LoopVk(a), kind |-> "down"]>> ELSE <<>>)
       \o (IF a.up THEN <<[vk |-> LoopVk(a), kind |-> "up"]>> ELSE <<>>)

\* the transitions a compiled sequence requests, in list order
ExpectedPosts(ks) == Flatten([i \in 1..Len(ks) |-> TransitionsOf(ks[i])])

\* the messages posted so far, as transitions
PostedTransitions ==
  [i \in 1..Len(posted) |->
     [vk |-> posted[i].vk,
      kind |-> IF posted[i].lparam.transition = 1 THEN "up" ELSE "down"]]

\* the sequence requests N down transitions followed by N up transitions
DownsThenUps(ks) ==
  LET t == ExpectedPosts(ks)
      n == Len(t) \div 2
  IN /\ ~HasPause(ks)
     /\ Len(t) = 2 * n
     /\ \A i \in 1..n : t[i].kind = "down"
     /\ \A i \in (n + 1)..Len(t) : t[i].kind = "up"

\* C1: whenever attachment succeeded, the input queues have been detached
\* exactly once when the call exits, whether it returns, fails in the loop
\* or fails while the text is compiled.
C1_DetachedOnEveryExit ==
  (Exited /\ attach_success) => Count(thread_input, "detach") = 1

\* C2: an exception raised inside the down/up loop leaves the call as an
\* exception, after the base snapshot was restored and the queues detached;
\* the call never returns normally after it.
C2_LoopErrorRethrown ==
  (Exited /\ loop_exc # "none") =>
    /\ pc = "raised"
    /\ exc = loop_exc
    /\ kbd = base
    /\ attach_success => Count(thread_input, "detach") = 1

\* C3: when the call returns, the keyboard state last applied to the thread
\* is the base snapshot captured at the start.
C3_BaseStateOnReturn == pc = "done" => kbd = base

\* C4: at every exit of the call the keyboard-state stack holds only the
\* base snapshot.
C4_StackDepthOnExit == Exited => Len(keyboard_state_stack) = 1

\* C5: N down transitions followed by N up transitions leave the stack
\* holding only the base snapshot and the applied keyboard state equal, byte
\* for byte, to the snapshot captured before the first push.
C5_PushPopRestores ==
  (pc \in {"detach", "done", "raised"} /\ DownsThenUps(keys)) =>
    /\ keyboard_state_stack = <<base>>
    /\ kbd = base

\* C5 witness: a returned call whose sequence pressed at least two keys
\* before releasing them, one of them carrying a shift requirement
C5_Witness ==
  /\ pc = "done"
  /\ DownsThenUps(keys)
  /\ Len(ExpectedPosts(keys)) >= 4
  /\ \E i \in 1..Len(keys) :
       keys[i].type = "KeyAction" /\ VkKeyScanW(keys[i].ch) \div 256 = 1

\* C6: after an exception of the loop has been handled, the keyboard state
\* of the thread is the base snapshot, however many snapshots were pushed.
C6_HandlerRestoresBase ==
  (loop_exc # "none" /\ pc \in {"detach", "done", "raised"}) =>
    kbd = base

\* C6 witness: the handler has run with two snapshots pushed above the base
C6_Witness ==
  /\ pc = "detach"
  /\ loop_exc # "none"
  /\ Len(keyboard_state_stack) >= 3
  /\ keyboard_state_stack[Len(keyboard_state_stack)] # base

\* C7: when attachment fails the call does not abort: it warns, posts the
\* messages of every action of the sequence in order and never detaches.
C7_DegradedAttachStillPosts ==
  (Exited /\ ~attach_success /\ ~ParseFailed) =>
    /\ pc = "done"
    /\ Count(warned, "attach failed") = 1
    /\ Count(thread_input, "detach") = 0
    /\ PostedTransitions = ExpectedPosts(keys)

\* C8: a Pause in the sequence posts nothing and changes no keyboard state,
\* and every key action around it is still posted, in list order.
C8_PauseOnlySuspends ==
  (pc = "done" /\ HasPause(keys)) => PostedTransitions = ExpectedPosts(keys)

(***************************************************************************)
(* Properties of the global path (specification SpecGlobal)                *)
(***************************************************************************)
\* the events inserted by the run of action i, as "down" / "up"
EventsBy(i) ==
  LET idx == {n \in 1..Len(events) : events[n].by = i}
      f == [n \in idx |->
              IF (events[n].input.dwFlags \div KEYEVENTF_KEYUP) % 2 = 1
                THEN "up" ELSE "down"]
      RECURSIVE InOrder(_)
      InOrder(n) == IF n > Len(events) THEN <<>>
                    ELSE (IF n \in idx THEN <<f[n]>> ELSE <<>>) \o InOrder(n + 1)
  IN InOrder(1)

\* the events an action requests
RequestedEvents(a) ==
  (IF a.down THEN <<"down">> ELSE <<>>) \o (IF a.up THEN <<"up">> ELSE <<>>)

\* C9: the run of a non-Pause action inserts exactly one event per
\* requested transition: down for hold-only, up for release-only, down then
\* up for a full action, whatever the class of the action.
C9_OneEventPerTransition ==
  \A i \in 1..Len(keys) :
    (i < index /\ keys[i].type # "PauseAction") =>
      EventsBy(i) = RequestedEvents(keys[i])

\* C10: a hold-only modifier action leaves the modifier down: its run
\* inserts no up event, so the modifier goes up only when its release-only
\* action runs.
C10_HeldModifierStaysDown ==
  \A i \in 1..Len(keys) :
    ( /\ i < index
      /\ keys[i].type = "VirtualKeyAction"
      /\ keys[i].key \in {VK_SHIFT, VK_CONTROL, VK_MENU}
      /\ keys[i].down /\ ~keys[i].up ) =>
      \A n \in 1..Len(events) :
        events[n].by = i => (events[n].input.dwFlags \div KEYEVENTF_KEYUP) % 2 = 0

\* C11: whenever the OS inserts fewer events than the run of an action asked
\* for (none included), the run raises, whatever the class of the action,
\* and the exception leaves send_keys.
C11_ShortInsertRaises ==
  [][ ( /\ pc = "loop"
        /\ index <= Len(keys)
        /\ Len(events') - Len(events) < Len(RunInputs(keys[index])) ) =>
      ( /\ pc' = "raised"
        /\ exc' \in {"RuntimeError", "OSError"} ) ]_vars

\* C11 witness: the OS inserted one of the two events of a KeyAction and
\* the call was left by the exception of its run
C11_Witness ==
  /\ pc = "raised"
  /\ exc = "RuntimeError"
  /\ index <= Len(keys)
  /\ keys[index].type = "KeyAction"
  /\ Len(RunInputs(keys[index])) = 2
  /\ Len(EventsBy(index)) = 1

(***************************************************************************)
(* Properties of the compiler (specification SpecParse)                    *)
(***************************************************************************)
\* the call to parse_keys has returned or raised
Compiled == pc \in {"done", "raised"}

\* a text with an opening brace or parenthesis that no later closer
\* matches, or with a closer outside every brace and group.  The closer of a
\* brace is the first right brace after its first enclosed character (the
\* bracketed right brace is a brace of its own); the closer of a
\* parenthesis is the first right parenthesis after it.
RECURSIVE UnbalancedFrom(_, _)
UnbalancedFrom(s, i) ==
  IF i >= Len(s) THEN FALSE
  ELSE CASE s[i + 1] = "{" ->
              LET e == Find(s, "}", i + 2)
              IN IF e = -1 THEN TRUE ELSE UnbalancedFrom(s, e + 1)
         [] s[i + 1] = "(" ->
              LET e == Find(s, ")", i + 1)
              IN IF e = -1 THEN TRUE
                 ELSE UnbalancedFrom(Slice(s, i + 1, e), 0) \/ UnbalancedFrom(s, e + 1)
         [] s[i + 1] \in {")", "}"} -> TRUE
         [] OTHER -> UnbalancedFrom(s, i + 1)

Unbalanced(s) == UnbalancedFrom(s, 0)

\* C12: for every text with an unclosed opening brace or parenthesis, or
\* with a closing one outside any brace or group, parse_keys raises
\* KeySequenceError and returns no sequence.
C12_UnbalancedIsSyntaxError ==
  (Compiled /\ Unbalanced(text)) =>
    (pc = "raised" /\ exc = "KeySequenceError")

\* the body of a text that is one brace token with a count: an opening
\* brace, a token, a space, a word that is not a down / up qualifier, a
\* closing brace
BraceBody(s) == Slice(s, 1, Len(s) - 1)

LastSpace(b) ==
  IF \E i \in 1..Len(b) : b[i] = " "
    THEN CHOOSE i \in 1..Len(b) : b[i] = " " /\ \A j \in (i + 1)..Len(b) : b[j] # " "
    ELSE 0

CountToken(s) == Slice(BraceBody(s), 0, LastSpace(BraceBody(s)) - 1)
CountWord(s) == Slice(BraceBody(s), LastSpace(BraceBody(s)), Len(BraceBody(s)))

IsCountForm(s) ==
  /\ Len(s) >= 5
  /\ s[1] = "{" /\ s[Len(s)] = "}"
  /\ \A i \in 2..(Len(s) - 1) : s[i] \notin {"{", "}", "\t", "\n"}
  /\ LastSpace(BraceBody(s)) > 1
  /\ CountToken(s)[Len(CountToken(s))] # " "
  /\ CountWord(s) # <<>>
  /\ Lower(CountWord(s)) \notin {<<"u", "p">>, <<"d", "o", "w", "n">>}

\* C13: a brace token whose count does not parse (as a float after PAUSE,
\* as an integer after any other token) makes parse_keys raise
\* KeySequenceError; no sequence is returned.
C13_BadCountIsSyntaxError ==
  ( /\ Compiled
    /\ IsCountForm(text)
    /\ IF CountToken(text) = <<"P", "A", "U", "S", "E">>
         THEN ~IsFloat(CountWord(text))
         ELSE ~IsInt(CountWord(text)) ) =>
    (pc = "raised" /\ exc = "KeySequenceError")

\* the text ends in a modifier prefix: nothing follows the prefix
EndsInModifier(s) == Len(s) > 0 /\ s[Len(s)] \in DOMAIN MODIFIERS

IsModifierHold(a, code) == a = VirtualKeyAction(code, TRUE, FALSE)
IsModifierRelease(a) ==
  /\ a.type = "VirtualKeyAction"
  /\ a.key \in {MODIFIERS[m] : m \in DOMAIN MODIFIERS}
  /\ ~a.down /\ a.up

\* C14 as stated: a text that ends in a modifier prefix makes parse_keys
\* raise KeySequenceError; it never yields a sequence.
C14_DanglingModifierRaises ==
  (Compiled /\ EndsInModifier(text)) =>
    (pc = "raised" /\ exc = "KeySequenceError")

\* C14 as amended: a dangling modifier raises nothing.  For a text that ends
\* in a modifier prefix parse_keys raises exactly when it raises for the
\* text without that prefix, and with the same error; otherwise it returns a
\* sequence in which the hold-only action of that modifier is followed by
\* its release-only action and, after that, by release-only modifier
\* actions alone.
C14_DanglingModifierReleased ==
  (Compiled /\ EndsInModifier(text)) =>
    LET code == MODIFIERS[text[Len(text)]]
        rest == parse_keys(SubSeq(text, 1, Len(text) - 1), opts, <<>>)
    IN /\ (pc = "raised") <=> (rest.err # "none")
       /\ pc = "raised" => exc = rest.err
       /\ pc = "done" =>
            \E i \in 1..(Len(keys) - 1) :
              /\ IsModifierHold(keys[i], code)
              /\ keys[i + 1] = VirtualKeyAction(code, FALSE, TRUE)
              /\ \A j \in (i + 1)..Len(keys) : IsModifierRelease(keys[j])

\* C14 witness: a text ending in two modifier prefixes has been compiled to
\* a sequence
C14_Witness ==
  /\ pc = "done"
  /\ Len(text) >= 2
  /\ EndsInModifier(text)
  /\ text[Len(text) - 1] \in DOMAIN MODIFIERS
  /\ text[Len(text) - 1] # text[Len(text)]

\* the key a modifier prefix stands for: shift, control, alt
ModifierKeyOf(m) ==
  CASE m = "+" -> VK_SHIFT [] m = "^" -> VK_CONTROL [] m = "%" -> VK_MENU

\* a plain character: not reserved, not white space, not the tilde
IsPlain(c) ==
  c \notin {"+", "^", "%", "(", ")", "{", "}", "~", " ", "\t", "\n"}

IsHoldOf(a, code) ==
  a.type = "VirtualKeyAction" /\ a.key = code /\ a.down /\ ~a.up
IsReleaseOf(a, code) ==
  a.type = "VirtualKeyAction" /\ a.key = code /\ ~a.down /\ a.up
IsEscapedFull(a, c) ==
  a.type = "EscapedKeyAction" /\ a.ch = c /\ a.down /\ a.up

\* C15: a modifier prefix followed by one plain character compiles to
\* exactly three actions: the modifier's key hold-only, the character as a
\* full EscapedKey action, the modifier's key release-only.
C15_ModifiedCharacter ==
  ( /\ Compiled
    /\ Len(text) = 2
    /\ text[1] \in {"+", "^", "%"}
    /\ IsPlain(text[2]) ) =>
    /\ pc = "done"
    /\ Len(keys) = 3
    /\ IsHoldOf(keys[1], ModifierKeyOf(text[1]))
    /\ IsEscapedFull(keys[2], text[2])
    /\ IsReleaseOf(keys[3], ModifierKeyOf(text[1]))

\* C15 witness: control with a digit, compiled with vk_packet off (where
\* the digit alone would be a VirtualKeyAction)
C15_Witness ==
  /\ pc = "done"
  /\ text = <<"^", "1">>
  /\ ~opts.vk_packet
  /\ Len(keys) = 3

\* C16: a modifier that applies to a parenthesised group is held for the
\* whole group: +(ab) and (+ab) compile to SHIFT hold-only, a and b as
\* EscapedKey actions, and one SHIFT release-only action after b.
C16_GroupHoldsModifier ==
  ( /\ Compiled
    /\ text \in { <<"+", "(", "a", "b", ")">>, <<"(", "+", "a", "b", ")">> } ) =>
    /\ pc = "done"
    /\ Len(keys) = 4
    /\ IsHoldOf(keys[1], VK_SHIFT)
    /\ IsEscapedFull(keys[2], "a")
    /\ IsEscapedFull(keys[3], "b")
    /\ IsReleaseOf(keys[4], VK_SHIFT)

\* a down / up qualifier occurs in the brace body
HasQualifier(s) ==
  \/ Contains(Lower(s), <<" ", "u", "p">>)
  \/ Contains(Lower(s), <<" ", "d", "o", "w", "n">>)

\* the compiled representation of a repeated token under the options of
\* the call: the NamedKey of a name of the table, otherwise the token
\* compiled as a sequence of its own
TokenCompiled(token, o) ==
  IF token \in DOMAIN CODES
    THEN Ok(<<VirtualKeyAction(CODES[token], TRUE, TRUE)>>, <<>>)
    ELSE parse_keys(token, o, <<>>)

\* C17: {PAUSE n} compiles to exactly one Pause action of duration n;
\* {TOKEN n} with any other token free of braces and qualifiers and an
\* integer n >= 0 compiles to the compiled sequence of TOKEN n times over.
C17_Repetition ==
  ( /\ Compiled
    /\ IsCountForm(text)
    /\ ~HasQualifier(text) ) =>
    IF CountToken(text) = <<"P", "A", "U", "S", "E">>
      THEN IsFloat(CountWord(text)) =>
             /\ pc = "done"
             /\ Len(keys) = 1
             /\ keys[1].type = "PauseAction"
             /\ keys[1].how_long = FloatVal(CountWord(text))
      ELSE (IsInt(CountWord(text)) /\ IntVal(CountWord(text)) >= 0) =>
             LET rep == TokenCompiled(CountToken(text), opts)
             IN /\ rep.err # "none" => pc = "raised"
                /\ rep.err = "none" =>
                     /\ pc = "done"
                     /\ keys = Repeat(rep.keys, IntVal(CountWord(text)))

\* a text that is one brace token NAME down or NAME up, NAME a name of the
\* named-key table or a single character
EndsWith(b, suffix) ==
  Len(b) >= Len(suffix) /\ Slice(b, Len(b) - Len(suffix), Len(b)) = suffix

QualifierOf(s) ==
  IF EndsWith(BraceBody(s), <<" ", "d", "o", "w", "n">>) THEN "down"
  ELSE IF EndsWith(BraceBody(s), <<" ", "u", "p">>) THEN "up"
  ELSE "none"

QualifiedName(s) ==
  Slice(BraceBody(s), 0,
        Len(BraceBody(s)) - (IF QualifierOf(s) = "down" THEN 5 ELSE 3))

IsQualifiedForm(s) ==
  /\ Len(s) >= 6
  /\ s[1] = "{" /\ s[Len(s)] = "}"
  /\ QualifierOf(s) # "none"
  /\ \/ QualifiedName(s) \in DOMAIN CODES
     \/ Len(QualifiedName(s)) = 1

IsSpaceAction(a) ==
  \/ a.type \in {"KeyAction", "EscapedKeyAction"} /\ a.ch = " "
  \/ a.type = "VirtualKeyAction" /\ a.key = 32
IsTabAction(a) == a.type \in {"KeyAction", "EscapedKeyAction"} /\ a.ch = "\t"
IsEnterAction(a) == a.type = "VirtualKeyAction" /\ a.key = 13

CountActions(ks, P(_)) == Cardinality({i \in 1..Len(ks) : P(ks[i])})

\* a text of plain characters, modifier prefixes and groups: no braces
NoBraces(s) == \A i \in 1..Len(s) : s[i] \notin {"{", "}"}

\* C19: a space, tab or newline of the text produces an action exactly when
\* its option is enabled in the call, also inside a parenthesised group and
\* inside the token of a repetition.
C19_WhitespaceByOption ==
  /\ (pc = "done" /\ NoBraces(text)) =>
       /\ CountActions(keys, IsSpaceAction)
            = (IF opts.with_spaces THEN Count(text, " ") ELSE 0)
       /\ CountActions(keys, IsTabAction)
            = (IF opts.with_tabs THEN Count(text, "\t") ELSE 0)
       /\ CountActions(keys, IsEnterAction)
            = Count(text, "~") + (IF opts.with_newlines THEN Count(text, "\n") ELSE 0)
  /\ ( /\ pc = "done"
       /\ IsCountForm(text)
       /\ ~HasQualifier(text)
       /\ IsInt(CountWord(text)) /\ IntVal(CountWord(text)) >= 0
       /\ CountToken(text) \notin DOMAIN CODES ) =>
       CountActions(keys, IsSpaceAction)
         = (IF opts.with_spaces
              THEN Count(CountToken(text), " ") * IntVal(CountWord(text)) ELSE 0)

\* a modifier action of a sequence compiled from a text without qualifiers
IsModifierKey(a) ==
  a.type = "VirtualKeyAction" /\ a.key \in {VK_SHIFT, VK_CONTROL, VK_MENU}
IsHold(a) == IsModifierKey(a) /\ a.down /\ ~a.up
IsRelease(a) == IsModifierKey(a) /\ ~a.down /\ a.up

\* the modifiers held after the first n actions, innermost last; <<-1>>
\* when a release meets no hold or a hold other than the innermost
RECURSIVE HeldAfter(_, _)
HeldAfter(ks, n) ==
  IF n = 0 THEN <<>>
  ELSE LET before == HeldAfter(ks, n - 1)
           a == ks[n]
       IN IF before = <<-1>> THEN before
          ELSE IF IsHold(a) THEN Append(before, a.key)
          ELSE IF IsRelease(a) THEN
            IF before # <<>> /\ before[Len(before)] = a.key
              THEN SubSeq(before, 1, Len(before) - 1)
              ELSE <<-1>>
          ELSE before

\* holds and releases pair like brackets
ProperlyPaired(ks) ==
  /\ \A n \in 0..Len(ks) : HeldAfter(ks, n) # <<-1>>
  /\ HeldAfter(ks, Len(ks)) = <<>>

\* a text that is modifier prefixes followed by one group that ends it
IsModifiedGroup(s) ==
  /\ Len(s) >= 4
  /\ s[1] \in {"+", "^", "%"}
  /\ s[Len(s)] = ")"
  /\ \E p \in 2..(Len(s) - 2) :
       /\ s[p] = "("
       /\ \A i \in 1..(p - 1) : s[i] \in {"+", "^", "%"}
       /\ \A i \in (p + 1)..(Len(s) - 1) : s[i] \notin {"(", ")", "{", "}"}

\* C20: in a sequence compiled from a text without down / up qualifiers the
\* modifier holds and releases pair like brackets (no release before its
\* hold, none left held, releases in reverse order of the holds), and every
\* action a modifier applies to lies between its hold and its release.
C20_ModifiersPaired ==
  (pc = "done" /\ ~HasQualifier(text)) =>
    /\ ProperlyPaired(keys)
    /\ IsModifiedGroup(text) =>
         \A n \in 1..Len(keys) :
           (~IsHold(keys[n]) /\ ~IsRelease(keys[n])) => HeldAfter(keys, n) # <<>>

\* C21: every action of a returned sequence that is not a Pause has down
\* or up set: no text compiles to an action with both cleared.
C21_SomeTransitionRequested ==
  pc = "done" =>
    \A i \in 1..Len(keys) :
      keys[i].type # "PauseAction" => (keys[i].down \/ keys[i].up)

\* C21 witness: a returned sequence with a hold-only and a release-only
\* action, both made by a qualifier
C21_Witness ==
  /\ pc = "done"
  /\ HasQualifier(text)
  /\ \E i, j \in 1..Len(keys) :
       /\ keys[i].down /\ ~keys[i].up
       /\ ~keys[j].down /\ keys[j].up
       /\ keys[i].type = "EscapedKeyAction"
       /\ keys[j].type = "VirtualKeyAction"

\* the bracketed forms of the four reserved characters
BracketedForms == { <<"{", c, "}">> : c \in {"(", ")", "{", "}"} }

IsLiteralFull(a, c) == a.type = "KeyAction" /\ a.ch = c /\ a.down /\ a.up

\* ks is the sequence base with one full LiteralKey for c inserted
InsertsLiteral(ks, base_keys, c) ==
  \E i \in 1..Len(ks) :
    /\ IsLiteralFull(ks[i], c)
    /\ SubSeq(ks, 1, i - 1) \o SubSeq(ks, i + 1, Len(ks)) = base_keys

\* C23: at the top level of a text each bracketed reserved character
\* compiles, without error, to exactly one full LiteralKey action for that
\* character: alone, before a text that compiles, and after one.
C23_BracketedReserved ==
  Compiled =>
    \A f \in BracketedForms :
      /\ text = f =>
           (pc = "done" /\ Len(keys) = 1 /\ IsLiteralFull(keys[1], f[2]))
      /\ (Len(text) > 3 /\ SubSeq(text, 1, 3) = f) =>
           LET rest == parse_keys(SubSeq(text, 4, Len(text)), opts, <<>>)
           IN rest.err = "none" =>
                (pc = "done" /\ keys = <<KeyAction(f[2], TRUE, TRUE)>> \o rest.keys)
      /\ (Len(text) > 3 /\ SubSeq(text, Len(text) - 2, Len(text)) = f) =>
           LET before == parse_keys(SubSeq(text, 1, Len(text) - 3), opts, <<>>)
           IN before.err = "none" =>
                (pc = "done" /\ InsertsLiteral(keys, before.keys, f[2]))

\* C23 witness: a bracketed right brace compiled after a pending modifier
C23_Witness ==
  /\ pc = "done"
  /\ text = <<"+", "{", "}", "}">>
  /\ Len(keys) = 3

\* a name in upper case, the spelling of the named-key table
UpperChar(c) ==
  IF c \in LowerCase
    THEN CHOOSE u \in DOMAIN Ord : Ord[u] = Ord[c] - 32
    ELSE c

Upper(s) == [i \in 1..Len(s) |-> UpperChar(s[i])]

\* C24: a name of the named-key table in braces compiles to the NamedKey of
\* its code in any upper / lower case spelling.
C24_NameCaseInsensitive ==
  ( /\ Compiled
    /\ Len(text) >= 3
    /\ text[1] = "{" /\ text[Len(text)] = "}"
    /\ Upper(BraceBody(text)) \in DOMAIN CODES ) =>
    /\ pc = "done"
    /\ Len(keys) = 1
    /\ keys[1].type = "VirtualKeyAction"
    /\ keys[1].key = CODES[Upper(BraceBody(text))]
    /\ keys[1].down /\ keys[1].up

\* the label of an action, looked up in the named-key table, gives back
\* the code of the action
LabelRecoversCode(a) ==
  /\ key_description(a).err = "none"
  /\ key_description(a).label \in DOMAIN CODES
  /\ CODES[key_description(a).label] = a.key

\* C25 as stated: for every NamedKey of a returned sequence, under any
\* options, the descriptive label looked up in the named-key table recovers
\* the code of the action.
C25_LabelRoundTrip ==
  pc = "done" =>
    \A i \in 1..Len(keys) :
      keys[i].type = "VirtualKeyAction" => LabelRecoversCode(keys[i])

\* C25 as amended: the label recovers the code of every NamedKey whose code
\* has a name in the table; the other NamedKeys, compiled with vk_packet off
\* from a character of the ASCII virtual-key table, are labelled "VK <code>",
\* which is no name of the table.
C25_LabelRoundTripForNamedCodes ==
  pc = "done" =>
    \A i \in 1..Len(keys) :
      keys[i].type = "VirtualKeyAction" =>
        IF \E n \in DOMAIN CODES : CODES[n] = keys[i].key
          THEN LabelRecoversCode(keys[i])
          ELSE /\ ~opts.vk_packet
               /\ \E c \in DOMAIN ascii_vk : ascii_vk[c] = keys[i].key
               /\ key_description(keys[i]).label
                    = <<"V", "K", " ">> \o FormatInt(keys[i].key)
               /\ key_description(keys[i]).label \notin DOMAIN CODES

\* C25 witness: a sequence compiled with vk_packet off that holds a NamedKey
\* of a name of the table, the NamedKey of a space and the NamedKey of a
\* letter
C25_Witness ==
  /\ pc = "done"
  /\ ~opts.vk_packet
  /\ \E i, j \in 1..Len(keys) :
       /\ keys[i].type = "VirtualKeyAction" /\ keys[i].key \in {32, 38, 40}
       /\ keys[j].type = "VirtualKeyAction" /\ keys[j].key = 65

\* ---- C26: message class and context flag follow ALT ----

\* the ALT messages among the first n posted messages
AltMessages(n) == {k \in 1..n : posted[k].vk = VK_MENU}

\* ALT is logically down after the first n posted messages: an ALT down was
\* posted and no ALT up was posted after it
AltDownAfter(n) ==
  /\ AltMessages(n) # {}
  /\ LET last == CHOOSE k \in AltMessages(n) : \A j \in AltMessages(n) : j <= k
     IN posted[last].lparam.transition = 0

IsSystemMessage(m) == m.msg \in {WM_SYSKEYDOWN, WM_SYSKEYUP}

IsOrdinaryMessage(m) == m.msg \in {WM_KEYDOWN, WM_KEYUP}

\* C26: in send_keystrokes a message posted while ALT is logically down, and
\* every message for the ALT key itself, is of the system-key pair; every
\* other message is of the ordinary pair; each message carries the context
\* flag exactly when ALT is logically down as it is posted, and between two
\* iterations the flag is set exactly when ALT is logically down.
C26_SystemPairFollowsAlt ==
  /\ \A n \in 1..Len(posted) :
       LET m == posted[n]
           alt == AltDownAfter(n - 1)
       IN /\ (m.vk = VK_MENU \/ alt) => IsSystemMessage(m)
          /\ ~(m.vk = VK_MENU \/ alt) => IsOrdinaryMessage(m)
          /\ m.msg \in {WM_KEYDOWN, WM_SYSKEYDOWN} <=> m.lparam.transition = 0
          /\ m.lparam.context = IF alt THEN 1 ELSE 0
  /\ pc \in {"loop", "key_down", "key_up"} =>
       context_code = IF AltDownAfter(Len(posted)) THEN 1 ELSE 0

\* a key other than ALT was posted as a system message under ALT, and a
\* later one as an ordinary message once ALT was up again
C26_Witness ==
  \E n1, n2 \in 1..Len(posted) :
     /\ n1 < n2
     /\ posted[n1].vk # VK_MENU /\ AltDownAfter(n1 - 1)
     /\ IsSystemMessage(posted[n1]) /\ posted[n1].lparam.context = 1
     /\ posted[n2].vk # VK_MENU /\ ~AltDownAfter(n2 - 1)
     /\ IsOrdinaryMessage(posted[n2]) /\ posted[n2].lparam.context = 0

\* ---- C27: one press task per key, chunk i of size i+1 ----

\* press_multiple_keys has come to its end, by return or by exception
PressEnded == pc \in {"done", "raised"} /\ presstime_int = presstime \div TicksPerUnit

\* C27: for every list of N keys and every presstime > 0, press_multiple_keys
\* starts exactly N press tasks, one per key in input order, the task of the
\* i-th key derived from the i-th chunk of the logarithmic split, which
\* holds i elements (i counted from 1).
C27_OneTaskPerKey ==
  (PressEnded /\ presstime > 0) =>
    /\ Len(threadlist) = Len(keystopress)
    /\ Len(allk) = Len(keystopress)
    /\ \A i \in 1..Len(keystopress) :
         /\ threadlist[i].key = keystopress[i]
         /\ allk[i].key = keystopress[i]
         /\ allk[i].chunk = log_split(presstime_int)[i]
         /\ allk[i].len = i

\* ---- C28: the call returns no earlier than presstime ----

\* C28: with every sleep lasting exactly its argument, for every non-empty
\* key list, every presstime > 0 and percentofregularpresstime = 100,
\* press_multiple_keys returns no earlier than presstime after the call.
C28_ReturnsAfterPresstime ==
  (pc = "done" /\ keystopress # <<>> /\ presstime > 0
     /\ percentofregularpresstime = 100)
    => now >= presstime

\* ---- C29: every hold time is strictly positive ----

\* C29: for every non-empty key list and every presstime > 0, with
\* percentofregularpresstime = 100, the delay press_multiple_keys hands to
\* the Press of each key is strictly positive.
C29_HoldTimePositive ==
  (keystopress # <<>> /\ presstime > 0 /\ percentofregularpresstime = 100)
    => \A i \in 1..Len(threadlist) : threadlist[i].delay > 0

\* ---- C30: hold time against chunk size ----

InLoop == pc \in {"loop", "key_down", "key_up", "except"}

\* C34: in every state of the send_keystrokes loop keyboard_state_stack
\* holds at least the base snapshot, as its first entry.
C34_BaseNeverPopped ==
  InLoop => /\ Len(keyboard_state_stack) >= 1
            /\ keyboard_state_stack[1] = base

\* ---- C35: the applied keyboard state follows the posted messages ----

HasPressedBit(byte) == (byte \div PRESSED) % 2 = 1

\* the messages posted for key K
MessagesOf(K) == {n \in 1..Len(posted) : posted[n].vk = K}

\* a down for K was posted and no up for K after it
LogicallyDown(K) ==
  /\ MessagesOf(K) # {}
  /\ LET last == CHOOSE n \in MessagesOf(K) : \A j \in MessagesOf(K) : j <= n
     IN posted[last].lparam.transition = 0

\* C35: after every iteration of the send_keystrokes loop, for every key K
\* other than SHIFT whose pressed bit is clear in the base snapshot, the
\* keyboard state last applied has the pressed bit of K exactly when a down
\* for K was posted with no later up for K.
C35_AppliedStateFollowsPosted ==
  (pc = "loop" /\ loop_exc = "none") =>
    \A K \in StateKeys \ {VK_SHIFT} :
       ~HasPressedBit(base[K]) => (HasPressedBit(kbd[K]) <=> LogicallyDown(K))

\* ---- C36: only the syntax error escapes parse_keys ----

\* C36: for every text, parse_keys returns a sequence or raises
\* KeySequenceError; no other kind of error leaves the call.
C36_OnlySyntaxErrorEscapes ==
  Compiled => (pc = "done" \/ (pc = "raised" /\ exc = "KeySequenceError"))

\* ---- C37: groups nest and respect bracketed escapes ----

\* a text of plain characters, modifier prefixes each followed by a plain
\* character or a group, bracketed parentheses, and parentheses that are
\* balanced and properly nested (depth counts the groups open at index i)
RECURSIVE NestedFrom(_, _, _)
NestedFrom(s, i, depth) ==
  IF i >= Len(s) THEN depth = 0
  ELSE CASE s[i + 1] = "{" ->
              /\ i + 3 <= Len(s)
              /\ Slice(s, i, i + 3) \in {<<"{", "(", "}">>, <<"{", ")", "}">>}
              /\ NestedFrom(s, i + 3, depth)
         [] s[i + 1] = "(" -> NestedFrom(s, i + 1, depth + 1)
         [] s[i + 1] = ")" -> depth > 0 /\ NestedFrom(s, i + 1, depth - 1)
         [] s[i + 1] \in {"a", "b", "1"} -> NestedFrom(s, i + 1, depth)
         [] s[i + 1] \in {"+", "^", "%"} ->
              /\ i + 2 <= Len(s)
              /\ s[i + 2] \in {"a", "b", "1", "("}
              /\ NestedFrom(s, i + 1, depth)
         [] OTHER -> FALSE

HasGroup(s) == \E i \in 1..Len(s) : s[i] = "("

\* C37: a text whose parentheses are balanced and properly nested, a
\* bracketed parenthesis counting as a literal, compiles without error.
C37_GroupsNest ==
  (Compiled /\ HasGroup(text) /\ NestedFrom(text, 0, 0)) => pc = "done"

\* ---- C38: the qualifier is case-insensitive ----

\* a text that is one brace token NAME QUALIFIER, the qualifier up or down
\* in any spelling, NAME a name of the named-key table or a single character
IsAnyCaseQualifiedForm(s) ==
  /\ Len(s) >= 6
  /\ s[1] = "{" /\ s[Len(s)] = "}"
  /\ LastSpace(BraceBody(s)) > 1
  /\ Lower(CountWord(s)) \in {<<"u", "p">>, <<"d", "o", "w", "n">>}
  /\ \/ CountToken(s) \in DOMAIN CODES
     \/ Len(CountToken(s)) = 1

\* the same token with its qualifier in lower case
LowerQualified(s) ==
  <<"{">> \o CountToken(s) \o <<" ">> \o Lower(CountWord(s)) \o <<"}">>

\* C38: {NAME UP} compiles to what {NAME up} compiles to and {NAME DOWN}
\* to what {NAME down} compiles to, in any spelling of the qualifier.
C38_QualifierCaseInsensitive ==
  (Compiled /\ IsAnyCaseQualifiedForm(text)) =>
    LET r == parse_keys(LowerQualified(text), opts, <<>>)
    IN /\ (pc = "done") = (r.err = "none")
       /\ pc = "done" => keys = r.keys

\* ---- C31: a rejected injection stays within its own task ----

ThreadState(i) == IF i <= Len(threadlist) THEN threadlist[i].state ELSE "none"

SomeRejected == \E i \in 1..Len(threadlist) : threadlist[i].state = "rejected"

\* the call has ended with a task started for every entry of allk, and
\* every task either emitted its down and its up event or had an injection
\* of its own rejected
SiblingsUnaffected ==
  /\ pc \in {"done", "raised"}
  /\ Len(threadlist) = Len(allk)
  /\ \A j \in 1..Len(threadlist) : threadlist[j].state \in {"done", "rejected"}

\* C31: once the injection of one press task is rejected, the scheduler
\* still starts the remaining tasks and comes to its end, and every sibling
\* task still emits its own down and up events.
C31_RejectionStaysLocal == SomeRejected ~> SiblingsUnaffected

\* ---- C32: a key that went down goes up ----

\* C32: for every key list and every presstime > 0, once a press task has
\* injected the down event of its key it eventually injects the matching up
\* event, unless the OS rejects that event.
C32_DownLeadsToUp ==
  \A i \in 1..MaxKeys :
     (ThreadState(i) = "down") ~> (ThreadState(i) \in {"done", "rejected"})

\* ---- C39: at the return every task has completed ----

\* C39: when press_multiple_keys returns, every press task it started has
\* run to its end, in every interleaving of the caller and the tasks.
C39_TasksCompleteAtReturn ==
  pc = "done" =>
    \A i \in 1..Len(threadlist) : threadlist[i].state \in {"done", "rejected"}

\* ---- C40: all keys are down together at some instant ----

\* with every sleep lasting exactly its argument and injection taking no
\* time, the key of task i is down from start to start + delay
DownFrom(i) == threadlist[i].start

DownUntil(i) == threadlist[i].start + threadlist[i].delay

\* C40: for every list of N >= 2 keys and every presstime > 0, with
\* percentofregularpresstime = 100, a task is started for each of the N
\* keys and there is an instant at which all N keys are down: no key goes
\* up before the last one goes down.
C40_AllDownTogether ==
  (pc = "done" /\ Len(keystopress) >= 2 /\ presstime > 0
     /\ percentofregularpresstime = 100) =>
    /\ Len(threadlist) = Len(keystopress)
    /\ \A i, j \in 1..Len(threadlist) :
         /\ threadlist[i].delay >= 0
         /\ DownFrom(i) <= DownUntil(j)

\* ---- C33: explicit start times, one release instant ----

\* the start times do not decrease and all lie below presstime
OffsetsInOrder ==
  /\ keystopress # <<>>
  /\ \A i \in 1..Len(keystopress) : keystopress[i][1] < presstime
  /\ \A i \in 1..(Len(keystopress) - 1) : keystopress[i][1] <= keystopress[i + 1][1]

\* C33: in press_multiple_keys_own_interval with non-decreasing start times
\* s below presstime and every sleep lasting exactly its argument, the key
\* of task i is held for presstime - s[i], every key goes up at
\* presstime - s[0] after the call, the last key goes down no later than
\* that, and the call returns no earlier than that.
C33_OneReleaseInstant ==
  (pc = "done" /\ OffsetsInOrder) =>
    /\ Len(threadlist) = Len(keystopress)
    /\ \A i \in 1..Len(threadlist) :
         /\ threadlist[i].key = keystopress[i][2]
         /\ threadlist[i].delay = presstime - keystopress[i][1]
         /\ DownUntil(i) = presstime - keystopress[1][1]
         /\ DownFrom(i) <= DownFrom(Len(threadlist))
         /\ DownFrom(Len(threadlist)) <= DownUntil(i)
    /\ now >= presstime - keystopress[1][1]

\* three keys with start times 1, 1 and 2 and presstime 3: the first is
\* pressed at once, the last one tick later, all go up after two ticks
C33_Witness ==
  /\ pc = "done"
  /\ presstime = 3
  /\ Len(threadlist) = 3
  /\ keystopress[1][1] = 1 /\ keystopress[3][1] = 2
  /\ DownFrom(1) = 0 /\ DownFrom(3) = 1
  /\ \A i \in 1..3 : DownUntil(i) = 2
  /\ \A i \in 1..3 : threadlist[i].state = "done"

====
